---- MODULE Spec2Model ----
(***************************************************************************)
(* Model of src/index.js: the Express routes exported as `api` and the two *)
(* callable functions createUser and sendNotification.                     *)
(*                                                                         *)
(* The two Firestore collections are the shared state; an Auth account or  *)
(* a message handed to FCM leaves nothing the program reads back.  A       *)
(* handler that awaits one client call is one action: its synchronous      *)
(* prefix reads only the request, the client serialises the call, and the  *)
(* continuation only builds the response.                                  *)
(* PUT /todos/:id awaits twice (update, then get), so it is two actions    *)
(* and other requests may run between them.                                *)
(*                                                                         *)
(* The clients behave as firebase-admin does: add() rejects a field whose  *)
(* value is undefined, update() rejects a document that does not exist,    *)
(* delete() accepts one, get() returns a snapshot whose data() is          *)
(* undefined for one, and any call may fail because the service cannot be  *)
(* reached, in which case it has no effect.                                *)
(*                                                                         *)
(* `last` is the response being delivered, with the request it answers and *)
(* the client calls made for it; `inflight` holds the PUT requests that    *)
(* are between their two calls.                                            *)
(*                                                                         *)
(* JSON values are modelled by their text: "undefined" is a key absent     *)
(* from the body, "" the empty string, "true"/"false" the booleans.        *)
(***************************************************************************)
EXTENDS Integers, Sequences, FiniteSets, TLC

\* ---------------------------------------------------------------- bounds
\* writes the store accepts
MaxClock == 3

\* limit(50) of the two list routes
QueryLimit == 50

\* document identifiers are opaque and never reused: a new document is named
\* by the server time of its creation
DocIds == 1..MaxClock

\* ---------------------------------------------------------------- values
Undef == "undefined"
OK == "ok"
\* FieldValue.serverTimestamp(): the sentinel the handler holds; the server
\* times that replace it start at 1
Sentinel == 0
TimeFields == {"createdAt", "updatedAt"}

Names == {Undef, "", "ann"}
Emails == {Undef, "", "a@x"}
Roles == {Undef, "admin"}
Titles == {Undef, "", "milk"}
Descriptions == {Undef, "d"}
Completeds == {Undef, "true"}

AuthEmails == {"a@x"}
Tokens == {"tok"}

\* messages of the errors the clients raise
ErrUnavailable == "unavailable"
ErrNotFound == "not-found"
ErrUndefinedValue == "undefined-field-value"
ErrEmailExists == "email-already-exists"

VARIABLES users, todos, clock, inflight, last

vars == <<users, todos, clock, inflight, last>>

\* ------------------------------------------------------- JavaScript bits
\* !v for the values a JSON string field can take
Falsy(v) == v = Undef \/ v = ""

\* destructuring default: `x = d` applies only when x is undefined
WithDefault(v, d) == IF v = Undef THEN d ELSE v

\* { id: doc.id, ...doc.data() }: later keys win
WithId(id, data) == data @@ [id |-> id]

\* faulty variant: a failed call is tried once more
AwaitRetry(log, client, op, err) ==
    IF err = OK
    THEN Append(log, [client |-> client, op |-> op, err |-> err])
    ELSE log \o <<[client |-> client, op |-> op, err |-> err],
                  [client |-> client, op |-> op, err |-> err]>>

\* one awaited client call, appended to the request's call log
Await(log, client, op, err) ==
    Append(log, [client |-> client, op |-> op, err |-> err])

\* res.status(code).json(body)
Respond(out, code, body) == Append(out, [status |-> code, body |-> body])

\* faulty variant: the message replaced by a fixed text
Catch500Generic(out, msg) == Respond(out, 500, [error |-> "Internal error"])

\* catch (error) { res.status(500).json({ error: error.message }) }
Catch500(out, msg) == Respond(out, 500, [error |-> msg])

\* ------------------------------------------------------------- Firestore
\* fields whose value is undefined: rejected by add() unless
\* ignoreUndefinedProperties is set, which initializeApp() does not do
HasUndefined(data) == \E f \in DOMAIN data \ TimeFields : data[f] = Undef

\* the stored document: sentinels resolved to the server time of the write
IsSentinel(data, f) == f \in TimeFields /\ data[f] = Sentinel

Resolve(data, now) ==
    [f \in DOMAIN data |-> IF IsSentinel(data, f) THEN now ELSE data[f]]

\* faulty variant: set() in place of update(), the document replaced by the fields
ApplyUpdateAsSet(doc, upd, now) == Resolve(upd, now)

\* DocumentReference.update(): merge the given fields into the document
ApplyUpdate(doc, upd, now) ==
    [f \in DOMAIN doc \cup DOMAIN upd |->
        IF f \in DOMAIN upd
        THEN (IF IsSentinel(upd, f) THEN now ELSE upd[f])
        ELSE doc[f]]

\* faulty variant: the delete is issued on the collection's first document when the
\* one named is gone
DeleteDocOrFirst(coll, id) ==
    IF id \in DOMAIN coll \/ DOMAIN coll = {}
    THEN [i \in DOMAIN coll \ {id} |-> coll[i]]
    ELSE LET first == CHOOSE i \in DOMAIN coll : \A j \in DOMAIN coll : i <= j
         IN  [i \in DOMAIN coll \ {first} |-> coll[i]]

\* DocumentReference.delete(): succeeds whether or not the document exists
DeleteDoc(coll, id) == [i \in DOMAIN coll \ {id} |-> coll[i]]

\* doc(id).update(upd) on the collection
UpdateDoc(coll, id, upd, now) ==
    IF id \in DOMAIN coll
    THEN [coll EXCEPT ![id] = ApplyUpdate(@, upd, now)]
    ELSE coll

\* collection.limit(n).get() followed by forEach: the documents returned
ListDocs(coll) ==
    LET got == IF Cardinality(DOMAIN coll) <= QueryLimit
               THEN DOMAIN coll
               ELSE CHOOSE S \in SUBSET DOMAIN coll :
                               Cardinality(S) = QueryLimit
    IN  {WithId(i, coll[i]) : i \in got}

\* ---------------------------------------------------------- the exchange
\* the request most recently answered, with what the handler did for it
\* `found`: the document the request names existed when its first call was
\* served; `clean`: no other write to it landed between the two calls of a PUT
Seen(kind, id, inp, calls, out, found, clean) ==
    [kind |-> kind, id |-> id, inp |-> inp, calls |-> calls, out |-> out,
     found |-> found, clean |-> clean]

\* a request that names no document
Exchange(kind, id, inp, calls, out) ==
    Seen(kind, id, inp, calls, out, FALSE, TRUE)

NoInput == [none |-> Undef]

\* no response is waiting to be read
Idle == Exchange("none", 0, NoInput, <<>>, <<>>)

Init ==
    /\ users = <<>>
    /\ todos = <<>>
    /\ clock = 0
    /\ inflight = {}
    /\ last = Idle

\* a write to todo `id` lands: every PUT between its update and its re-read
\* of that todo has been overtaken
Overtaken(p, id) == IF p.id = id THEN [p EXCEPT !.clean = FALSE] ELSE p

Overtake(infl, id) == {Overtaken(p, id) : p \in infl}

\* add(): the outcomes of one insert of `data`
AddErrors(data) ==
    IF HasUndefined(data) THEN {ErrUndefinedValue} ELSE {OK, ErrUnavailable}

\* faulty variant: the update of a missing document is accepted
UpdateErrorsLenient(coll, id) == {OK, ErrUnavailable}

\* update(): the outcomes of one update of document `id`
UpdateErrors(coll, id) ==
    IF id \in DOMAIN coll THEN {OK, ErrUnavailable}
    ELSE {ErrNotFound, ErrUnavailable}

\* get(), delete(), send(): succeed unless the service cannot be reached
CallErrors == {OK, ErrUnavailable}

\* ------------------------------------------------------------ GET /health
Health ==
    /\ last = Idle
    /\ last' = Exchange("GET /health", 0, NoInput, <<>>,
                        Respond(<<>>, 200, [status |-> "healthy",
                                            timestamp |-> "toISOString",
                                            service |-> "firebase-functions-api"]))
    /\ UNCHANGED <<users, todos, clock, inflight>>

\* ------------------------------------------------------------- GET /users
GetUsers ==
    /\ last = Idle
    /\ \E err \in CallErrors :
        LET calls == Await(<<>>, "firestore", "users.get", err)
            out == IF err = OK
                   THEN Respond(<<>>, 200, [users |-> ListDocs(users)])
                   ELSE Catch500(<<>>, err)
        IN  /\ last' = Exchange("GET /users", 0, NoInput, calls, out)
            /\ UNCHANGED <<users, todos, clock, inflight>>

\* ------------------------------------------------------------ POST /users
\* faulty variant: && in place of ||
UserInputMissingBoth(name, email) == Falsy(name) /\ Falsy(email)

\* if (!name || !email)
UserInputMissing(name, email) == Falsy(name) \/ Falsy(email)

UserData(inp) ==
    [name |-> inp.name, email |-> inp.email,
     role |-> WithDefault(inp.role, "user"),
     createdAt |-> Sentinel, updatedAt |-> Sentinel]

PostUsers ==
    /\ last = Idle
    /\ \E name \in Names, email \in Emails, role \in Roles :
        LET inp == [name |-> name, email |-> email, role |-> role]
            userData == UserData(inp)
        IN  IF UserInputMissing(name, email)
            THEN /\ last' = Exchange("POST /users", 0, inp, <<>>,
                                     Respond(<<>>, 400,
                                       [error |-> "Name and email are required"]))
                 /\ UNCHANGED <<users, todos, clock, inflight>>
            ELSE \E err \in AddErrors(userData) :
                   LET calls == Await(<<>>, "firestore", "users.add", err)
                   IN  IF err = OK
                       THEN /\ clock < MaxClock
                            /\ users' = users @@
                                  (clock + 1 :> Resolve(userData, clock + 1))
                            /\ clock' = clock + 1
                            /\ last' = Exchange("POST /users", clock + 1, inp,
                                  calls,
                                  Respond(<<>>, 201, WithId(clock + 1, userData)))
                            /\ UNCHANGED <<todos, inflight>>
                       ELSE /\ last' = Exchange("POST /users", 0, inp, calls,
                                               Catch500(<<>>, err))
                            /\ UNCHANGED <<users, todos, clock, inflight>>

\* --------------------------------------------------------- GET /users/:id
\* faulty variant: no `exists` check
UserResponseUnchecked(out, coll, id) ==
    Respond(out, 200, IF id \in DOMAIN coll THEN WithId(id, coll[id])
                      ELSE [id |-> id])

\* the response built from the snapshot of document `id`
UserResponse(out, coll, id) ==
    IF id \notin DOMAIN coll
    THEN Respond(out, 404, [error |-> "User not found"])
    ELSE Respond(out, 200, WithId(id, coll[id]))

GetUser ==
    /\ last = Idle
    /\ \E id \in DocIds, err \in CallErrors :
        LET calls == Await(<<>>, "firestore", "users.doc.get", err)
            out == IF err = OK THEN UserResponse(<<>>, users, id)
                   ELSE Catch500(<<>>, err)
        IN  /\ last' = Seen("GET /users/:id", id, NoInput, calls, out,
                         id \in DOMAIN users, TRUE)
            /\ UNCHANGED <<users, todos, clock, inflight>>

\* ------------------------------------------------------------- GET /todos
GetTodos ==
    /\ last = Idle
    /\ \E err \in CallErrors :
        LET calls == Await(<<>>, "firestore", "todos.get", err)
            out == IF err = OK
                   THEN Respond(<<>>, 200, [todos |-> ListDocs(todos)])
                   ELSE Catch500(<<>>, err)
        IN  /\ last' = Exchange("GET /todos", 0, NoInput, calls, out)
            /\ UNCHANGED <<users, todos, clock, inflight>>

\* ------------------------------------------------------------ POST /todos
TodoData(inp) ==
    [title |-> inp.title, description |-> inp.description,
     completed |-> WithDefault(inp.completed, "false"),
     createdAt |-> Sentinel, updatedAt |-> Sentinel]

PostTodos ==
    /\ last = Idle
    /\ \E title \in Titles, description \in Descriptions,
       completed \in Completeds :
        LET inp == [title |-> title, description |-> description,
                    completed |-> completed]
            todoData == TodoData(inp)
        IN  IF Falsy(title)
            THEN /\ last' = Exchange("POST /todos", 0, inp, <<>>,
                                     Respond(<<>>, 400,
                                       [error |-> "Title is required"]))
                 /\ UNCHANGED <<users, todos, clock, inflight>>
            ELSE \E err \in AddErrors(todoData) :
                   LET calls == Await(<<>>, "firestore", "todos.add", err)
                   IN  IF err = OK
                       THEN /\ clock < MaxClock
                            /\ todos' = todos @@
                                  (clock + 1 :> Resolve(todoData, clock + 1))
                            /\ clock' = clock + 1
                            /\ last' = Exchange("POST /todos", clock + 1, inp,
                                  calls,
                                  Respond(<<>>, 201, WithId(clock + 1, todoData)))
                            /\ UNCHANGED <<users, inflight>>
                       ELSE /\ last' = Exchange("POST /todos", 0, inp, calls,
                                               Catch500(<<>>, err))
                            /\ UNCHANGED <<users, todos, clock, inflight>>

\* --------------------------------------------------------- PUT /todos/:id
BodyFields == {"title", "description", "completed"}

\* updateData: updatedAt, and each body field that is !== undefined
UpdateData(inp) ==
    [f \in {"updatedAt"} \cup {g \in BodyFields : inp[g] # Undef} |->
        IF f = "updatedAt" THEN Sentinel ELSE inp[f]]

\* faulty variant: the response built without the re-read data
SnapshotBodyIdOnly(coll, id) == [id |-> id]

\* { id: updatedDoc.id, ...updatedDoc.data() }: data() of a snapshot of a
\* document that does not exist is undefined, and spreads to nothing
SnapshotBody(coll, id) ==
    IF id \in DOMAIN coll THEN WithId(id, coll[id]) ELSE [id |-> id]

\* lines 139-150: up to the end of the awaited update()
PutTodoUpdate ==
    /\ last = Idle
    /\ \E id \in DocIds, title \in Titles, description \in Descriptions,
          completed \in Completeds :
        LET inp == [title |-> title, description |-> description,
                    completed |-> completed]
            updateData == UpdateData(inp)
        IN  \E err \in UpdateErrors(todos, id) :
              LET calls == Await(<<>>, "firestore", "todos.doc.update", err)
              IN  IF err = OK
                  THEN /\ clock < MaxClock
                       /\ todos' = UpdateDoc(todos, id, updateData, clock + 1)
                       /\ clock' = clock + 1
                       /\ inflight' = Overtake(inflight, id) \cup
                             {[id |-> id, inp |-> inp, calls |-> calls,
                               at |-> clock + 1,
                               found |-> id \in DOMAIN todos,
                               clean |-> TRUE]}
                       /\ UNCHANGED <<users, last>>
                  ELSE /\ last' = Seen("PUT /todos/:id", id, inp, calls,
                                      Catch500(<<>>, err),
                                      id \in DOMAIN todos, TRUE)
                       /\ UNCHANGED <<users, todos, clock, inflight>>

\* lines 152-160: the awaited get() and the response
PutTodoReread(p) ==
    /\ last = Idle
    /\ p \in inflight
    /\ \E err \in CallErrors :
        LET calls == Await(p.calls, "firestore", "todos.doc.get", err)
            out == IF err = OK
                   THEN Respond(<<>>, 200, SnapshotBody(todos, p.id))
                   ELSE Catch500(<<>>, err)
        IN  /\ last' = Seen("PUT /todos/:id", p.id, p.inp, calls, out,
                                p.found, p.clean)
            /\ inflight' = inflight \ {p}
            /\ UNCHANGED <<users, todos, clock>>

\* ------------------------------------------------------ DELETE /todos/:id
DeleteTodo ==
    /\ last = Idle
    /\ \E id \in DocIds, err \in CallErrors :
        LET calls == Await(<<>>, "firestore", "todos.doc.delete", err)
        IN  IF err = OK
            THEN /\ todos' = DeleteDoc(todos, id)
                 /\ inflight' = IF id \in DOMAIN todos
                                THEN Overtake(inflight, id) ELSE inflight
                 /\ last' = Seen("DELETE /todos/:id", id, NoInput, calls,
                        Respond(<<>>, 200,
                                [message |-> "Todo deleted successfully"]),
                        id \in DOMAIN todos, TRUE)
                 /\ UNCHANGED <<users, clock>>
            ELSE /\ last' = Seen("DELETE /todos/:id", id, NoInput, calls,
                                 Catch500(<<>>, err),
                                 id \in DOMAIN todos, TRUE)
                 /\ UNCHANGED <<users, todos, clock, inflight>>

\* -------------------------------------------------------------- callables
\* throw new functions.https.HttpsError(code, message)
Throw(out, code, message) == Append(out, [code |-> code, message |-> message])

\* return value
Return(out, value) == Append(out, [code |-> OK, result |-> value])

\* faulty variant: the guard is missing
UnauthenticatedNever(auth) == FALSE

\* if (!context.auth)
Unauthenticated(auth) == ~auth

\* auth().createUser(): accounts are also created outside this program, so
\* whether `email` is taken is not for the program to know
CreateErrors(email) == {OK, ErrEmailExists, ErrUnavailable}

CreateUser ==
    /\ last = Idle
    /\ \E auth \in BOOLEAN, email \in AuthEmails :
        LET inp == [auth |-> auth, email |-> email, displayName |-> "ann"]
        IN  IF Unauthenticated(auth)
            THEN /\ last' = Exchange("createUser", 0, inp, <<>>,
                        Throw(<<>>, "unauthenticated",
                              "User must be authenticated"))
                 /\ UNCHANGED <<users, todos, clock, inflight>>
            ELSE \E err \in CreateErrors(email) :
                   LET calls == Await(<<>>, "auth", "createUser", err)
                   IN  IF err = OK
                       THEN /\ last' = Exchange("createUser", 0, inp, calls,
                                  Return(<<>>, [uid |-> <<"uid", email>>,
                                                email |-> email]))
                            /\ UNCHANGED <<users, todos, clock, inflight>>
                       ELSE /\ last' = Exchange("createUser", 0, inp, calls,
                                  Throw(<<>>, "internal", err))
                            /\ UNCHANGED <<users, todos, clock, inflight>>

SendNotification ==
    /\ last = Idle
    /\ \E auth \in BOOLEAN, token \in Tokens :
        LET inp == [auth |-> auth, token |-> token, title |-> "t", body |-> "b"]
            message == [token |-> token,
                        notification |-> [title |-> inp.title,
                                          body |-> inp.body]]
        IN  IF Unauthenticated(auth)
            THEN /\ last' = Exchange("sendNotification", 0, inp, <<>>,
                        Throw(<<>>, "unauthenticated",
                              "User must be authenticated"))
                 /\ UNCHANGED <<users, todos, clock, inflight>>
            ELSE \E err \in CallErrors :
                   LET calls == Await(<<>>, "messaging", "send", err)
                   IN  IF err = OK
                       THEN /\ last' = Exchange("sendNotification", 0, inp,
                                  calls,
                                  Return(<<>>, [success |-> TRUE,
                                                messageId |-> <<"msg", message.token>>]))
                            /\ UNCHANGED <<users, todos, clock, inflight>>
                       ELSE /\ last' = Exchange("sendNotification", 0, inp,
                                  calls, Throw(<<>>, "internal", err))
                            /\ UNCHANGED <<users, todos, clock, inflight>>

\* ---------------------------------------------------------- specification
\* the response is read by its client.  `last` only records what was sent, so
\* reading one response before the next is recorded loses no behaviour of the
\* collections or of the requests in flight.
Consume ==
    /\ last # Idle
    /\ last' = Idle
    /\ UNCHANGED <<users, todos, clock, inflight>>

Next ==
    \/ Health
    \/ GetUsers
    \/ PostUsers
    \/ GetUser
    \/ GetTodos
    \/ PostTodos
    \/ PutTodoUpdate
    \/ \E p \in inflight : PutTodoReread(p)
    \/ DeleteTodo
    \/ CreateUser
    \/ SendNotification
    \/ Consume

Spec == Init /\ [][Next]_vars

\* ------------------------------------------------------------ properties
\* what the answered request sent, when it sent exactly one response
Status == last.out[1].status
Body == last.out[1].body
Missing(v) == v \in {Undef, ""}
FailedCalls(calls) == {i \in 1..Len(calls) : calls[i].err # OK}
StoreKinds == {"GET /users", "POST /users", "GET /users/:id", "GET /todos",
               "POST /todos", "PUT /todos/:id", "DELETE /todos/:id"}
Callables == {"createUser", "sendNotification"}

\* a step in which the handler of `kind` sends its response
Answers(kind) == last = Idle /\ last'.kind = kind

\* C1: a POST /users whose name or email is absent or empty is answered 400
\* with an error body, calls no client, and leaves users and todos as they
\* were before the request.
C1_InvalidUserRejected ==
    [][(/\ Answers("POST /users")
        /\ Missing(last'.inp.name) \/ Missing(last'.inp.email))
       => /\ Len(last'.out) = 1
          /\ last'.out[1].status = 400
          /\ "error" \in DOMAIN last'.out[1].body
          /\ last'.calls = <<>>
          /\ users' = users
          /\ todos' = todos]_vars

C1_Witness ==
    /\ last.kind = "POST /users"
    /\ last.inp.name = "ann"
    /\ last.inp.email = ""
    /\ Status = 400
    /\ clock > 0

\* C2: a POST /todos with a non-empty title is answered 201 with the created
\* record, completed being the supplied value or false when omitted, unless
\* the store cannot be reached.
C2_TodoCreated ==
    (/\ last.kind = "POST /todos"
     /\ ~Missing(last.inp.title)
     /\ \A i \in 1..Len(last.calls) : last.calls[i].err # ErrUnavailable)
    => /\ Len(last.out) = 1
       /\ Status = 201
       /\ Body.title = last.inp.title
       /\ Body.completed = (IF last.inp.completed = Undef THEN "false"
                            ELSE last.inp.completed)

\* the PUT requests whose update() the store applies in this step
Updating == {p \in inflight' : p.at = clock' /\ clock' # clock}

\* C3: the update of a PUT /todos/:id on an existing todo sets exactly the
\* fields of title, description and completed that the body holds, refreshes
\* updatedAt, and leaves the rest of the document and every other document
\* as they were.
C3_PartialUpdate ==
    [][\A p \in Updating :
         /\ p.id \in DOMAIN todos
         /\ DOMAIN todos' = DOMAIN todos
         /\ DOMAIN todos'[p.id] = DOMAIN todos[p.id]
         /\ \A f \in BodyFields :
              todos'[p.id][f] = (IF p.inp[f] # Undef THEN p.inp[f]
                                 ELSE todos[p.id][f])
         /\ todos'[p.id].createdAt = todos[p.id].createdAt
         /\ todos'[p.id].updatedAt = clock'
         /\ todos'[p.id].updatedAt > todos[p.id].updatedAt
         /\ \A j \in DOMAIN todos \ {p.id} : todos'[j] = todos[j]
         /\ users' = users]_vars

C3_Witness ==
    \E p \in inflight :
        /\ p.inp = [title |-> Undef, description |-> Undef,
                    completed |-> "true"]
        /\ p.id \in DOMAIN todos
        /\ todos[p.id].updatedAt = p.at
        /\ todos[p.id].createdAt < p.at
        /\ todos[p.id].completed = "true"
        /\ todos[p.id].title = "milk"
        /\ Cardinality(DOMAIN todos) > 1

\* C4: a callable invoked without a caller identity fails with the code
\* 'unauthenticated' and calls no client; a callable that calls the Identity
\* Provider or the Push Messaging client was invoked with a caller identity.
C4_AuthenticatedOnly ==
    [][\A k \in Callables :
         Answers(k) =>
           /\ ~last'.inp.auth =>
                /\ Len(last'.out) = 1
                /\ last'.out[1].code = "unauthenticated"
                /\ last'.calls = <<>>
           /\ last'.calls # <<>> => last'.inp.auth
           /\ UNCHANGED <<users, todos>>]_vars

C4_Witness ==
    /\ last.kind = "createUser"
    /\ ~last.inp.auth
    /\ last.out[1].code = "unauthenticated"
    /\ last.calls = <<>>

\* C5: a DELETE /todos/:id of an identifier that names no todo (deleted
\* before, or never created) is answered once, 200 with the confirmation or
\* 500 with an error body, and leaves the store as it was.
C5_DeleteIdempotent ==
    [][(Answers("DELETE /todos/:id") /\ last'.id \notin DOMAIN todos)
       => /\ Len(last'.out) = 1
          /\ \/ /\ last'.out[1].status = 200
                /\ last'.out[1].body = [message |-> "Todo deleted successfully"]
             \/ /\ last'.out[1].status = 500
                /\ "error" \in DOMAIN last'.out[1].body
          /\ todos' = todos
          /\ users' = users]_vars

\* the second DELETE of a todo, a third one still being stored
C5_Witness ==
    /\ last.kind = "DELETE /todos/:id"
    /\ Status = 200
    /\ ~last.found
    /\ last.id <= clock
    /\ last.id \notin DOMAIN users
    /\ todos # <<>>

\* C6: GET /users/:id is answered 200 only for a document that exists at the
\* read, with the record and its identifier; for an identifier that names no
\* user it is answered 404 with an error body, unless the read itself fails.
C6_UserNotFound ==
    [][Answers("GET /users/:id") =>
         LET id == last'.id
             st == last'.out[1].status
             body == last'.out[1].body
         IN  /\ Len(last'.out) = 1
             /\ st = 200 =>
                  /\ id \in DOMAIN users
                  /\ DOMAIN body = DOMAIN users[id] \cup {"id"}
                  /\ body.id = id
                  /\ \A f \in DOMAIN users[id] : body[f] = users[id][f]
             /\ (id \notin DOMAIN users /\ FailedCalls(last'.calls) = {})
                  => st = 404 /\ "error" \in DOMAIN body
             /\ st \in {200, 404, 500}
             /\ st = 500 => FailedCalls(last'.calls) # {}]_vars

C6_Witness ==
    /\ last.kind = "GET /users/:id"
    /\ Status = 404
    /\ last.id \notin DOMAIN users
    /\ users # <<>>

\* C7: when a call to the store fails in a store-backed route, the handler
\* sends one response, 500 with the store's message as the body's error
\* field, and the failed call is the last call it makes.
C7_StoreFailureIs500 ==
    /\ (last.kind \in StoreKinds /\ FailedCalls(last.calls) # {})
       => /\ Len(last.out) = 1
          /\ Status = 500
          /\ FailedCalls(last.calls) = {Len(last.calls)}
          /\ Body = [error |-> last.calls[Len(last.calls)].err]
    /\ \A p \in inflight : FailedCalls(p.calls) = {}

C7_Witness ==
    /\ last.kind = "PUT /todos/:id"
    /\ Len(last.calls) = 2
    /\ last.calls[2].err = ErrUnavailable
    /\ Status = 500
    /\ Body = [error |-> ErrUnavailable]

\* C8 as stated: every handler makes at most one call to a client.
C8_AtMostOneCall == Len(last.calls) <= 1

\* C8 as amended: every handler makes at most one call to a client, except
\* PUT /todos/:id, which after a successful update makes a second call, the
\* re-read, and is suspended once at each.
C8_CallsPerRequest ==
    /\ last.kind # "PUT /todos/:id" => Len(last.calls) <= 1
    /\ last.kind = "PUT /todos/:id" =>
         /\ Len(last.calls) \in {1, 2}
         /\ last.calls[1].op = "todos.doc.update"
         /\ Len(last.calls) = 2 =>
              /\ last.calls[1].err = OK
              /\ last.calls[2].op = "todos.doc.get"
    /\ \A p \in inflight :
         /\ Len(p.calls) = 1
         /\ p.calls[1].op = "todos.doc.update"

C8_Witness ==
    /\ last.kind = "PUT /todos/:id"
    /\ Len(last.calls) = 2
    /\ Status = 200

\* C9: a PUT /todos/:id whose identifier names no todo when its update is
\* served is answered 500 with an error body and leaves the store as it was;
\* an update is applied only to a todo that exists, and no step of a PUT adds
\* or removes a document.
C9_PutMissing ==
    [][/\ (/\ Answers("PUT /todos/:id")
           /\ Len(last'.calls) = 1
           /\ last'.id \notin DOMAIN todos)
          => /\ Len(last'.out) = 1
             /\ last'.out[1].status = 500
             /\ "error" \in DOMAIN last'.out[1].body
             /\ todos' = todos
             /\ users' = users
       /\ \A p \in Updating :
            p.id \in DOMAIN todos /\ DOMAIN todos' = DOMAIN todos
       /\ Answers("PUT /todos/:id") => DOMAIN todos' = DOMAIN todos]_vars

C9_Witness ==
    /\ last.kind = "PUT /todos/:id"
    /\ ~last.found
    /\ Status = 500
    /\ Body = [error |-> ErrNotFound]
    /\ last.id \notin DOMAIN todos
    /\ todos # <<>>

\* the supplied fields of the answered PUT, as the response gives them
SuppliedReturned ==
    \A f \in BodyFields :
        last.inp[f] # Undef => f \in DOMAIN Body /\ Body[f] = last.inp[f]

\* C10 as stated: in every interleaving, the 200 response of a PUT holds the
\* value of each field its own body supplied.
C10_ResponseHoldsSupplied ==
    (last.kind = "PUT /todos/:id" /\ Status = 200) => SuppliedReturned

\* C10 as amended: the 200 response of a PUT is the todo as the re-read
\* finds it, only the identifier when it has been deleted; it holds the
\* value of each field its own body supplied when no other PUT or DELETE of
\* that todo landed between this handler's update and its re-read.
C10_ResponseIsReread ==
    (last.kind = "PUT /todos/:id" /\ Status = 200) =>
       /\ Body.id = last.id
       /\ last.id \in DOMAIN todos =>
            /\ DOMAIN Body = DOMAIN todos[last.id] \cup {"id"}
            /\ \A f \in DOMAIN todos[last.id] : Body[f] = todos[last.id][f]
       /\ last.id \notin DOMAIN todos => Body = [id |-> last.id]
       /\ last.clean => SuppliedReturned

C10_Witness ==
    /\ last.kind = "PUT /todos/:id"
    /\ Status = 200
    /\ last.clean
    /\ last.inp.title = ""
    /\ last.inp.completed = "true"
    /\ Body.title = ""
    /\ Body.completed = "true"

====
